---- MODULE Spec2Model ----
(***************************************************************************)
(* SimpleVRProcessor (vr180_streamlit/utils/video_processor.py).           *)
(*                                                                         *)
(* convert_to_vr180 is modelled as a process per call: one action per      *)
(* statement group of the function, in program order, with the exception   *)
(* edges of its single try/except.  The file system (the directories made  *)
(* by tempfile.mkdtemp, the files in them, and the process's working       *)
(* directory) is shared by all calls.  create_stereo_pair / shift_image    *)
(* are modelled per pixel in exact rational arithmetic.                    *)
(***************************************************************************)
EXTENDS Integers, Sequences, FiniteSets, TLC

VARIABLES
    input,              \* per call: the video file behind input_path
    progress_callback,  \* per call: TRUE when a callback was passed
    pc,                 \* per call: position in convert_to_vr180
    output_dir,         \* per call: the directory mkdtemp returned
    dirs,               \* file system: the temporary directories that exist
    files,              \* file system: path -> file
    cap,                \* per call: the cv2.VideoCapture handle
    out,                \* per call: the cv2.VideoWriter handle
    total_frames,       \* per call: int(cap.get(CAP_PROP_FRAME_COUNT))
    frame_count,        \* per call: the loop counter
    read_called,        \* per call: cap.read() has been called
    written,            \* per call: the frames handed to out.write, in order
    progress,           \* per call: the calls made to progress_callback
    original_clip,      \* per call: VideoFileClip(input_path)
    processed_clip,     \* per call: VideoFileClip(temp_video_path)
    error,              \* per call: the exception caught by the except block
    result,             \* per call: the path returned
    touched,            \* per call: every path the call created, wrote or deleted
    pixel,              \* shift_image: one pixel of a frame and of its depth map
    coords              \* shift_image: the sampling coordinates of both eyes

vars == <<input, progress_callback, pc, output_dir, dirs, files, cap, out,
          total_frames, frame_count, read_called, written, progress,
          original_clip, processed_clip, error, result, touched, pixel, coords>>

callVars == <<input, progress_callback, pc, output_dir, dirs, files, cap, out,
              total_frames, frame_count, read_called, written, progress,
              original_clip, processed_clip, error, result, touched>>

--------------------------------------------------------------------------
(* Bounds of the model *)

MaxFrames == 31

MaxFramesConc == 2

MaxWidth == 8

--------------------------------------------------------------------------
(* Program constants *)

ProgressEvery == 30

LoopBase == 20

LoopSpan == 60

PctLoad == 10

PctAudio == 95

PctDone == 100

max_disparity == 15

DepthMax == 255

ShiftNum == 3

ShiftDen == 10

--------------------------------------------------------------------------
(* Calls, inputs and the file system *)

Calls == {"call_a", "call_b"}

TmpDirs == {"tmp_x", "tmp_y"}

Cwd == "cwd"

NoDir == "none"

NoPath == <<"none", "none">>

\* A path is <<directory, file name>>.
output_path(c) == <<output_dir[c], "vr180_output.mp4">>

temp_video_path(c) == <<output_dir[c], "temp_video.mp4">>

\* temp_audiofile='temp-audio.m4a' is a relative path: it names a file of the
\* working directory of the process, whatever call passes it.
temp_audiofile == <<Cwd, "temp-audio.m4a">>

DirPath(d) == <<d, ".">>

AllPaths ==
    {<<d, n>> : d \in TmpDirs, n \in {"vr180_output.mp4", "temp_video.mp4"}}
        \cup {temp_audiofile}

NoFile ==
    [exists |-> FALSE, frames |-> <<>>, audio |-> "none", codec |-> "none",
     complete |-> FALSE]

VideoFile(fr, au, cd, ok) ==
    [exists |-> TRUE, frames |-> fr, audio |-> au, codec |-> cd, complete |-> ok]

exists(p) == files[p].exists

\* The k-th frame of the video behind call c's input_path, uniquely marked.
Frame(c, k) == <<c, k>>

\* A readable video has at least one frame; the frame count its container
\* reports may be exact, too small, too large, 0 or negative.
ValidInputs(maxN) ==
    [valid : {TRUE}, nFrames : 1..maxN, reported : (-1)..maxN, hasAudio : BOOLEAN]

\* A zero-byte or non-video file: nothing opens it, every property reads 0.
InvalidInput == [valid |-> FALSE, nFrames |-> 0, reported |-> 0, hasAudio |-> FALSE]

--------------------------------------------------------------------------
(* Progress values.  20 + (frame_count / total_frames) * 60 is a float; it  *)
(* is kept as the exact fraction num/den (den may be negative, never 0).    *)

Fixed(n) == [num |-> n, den |-> 1]

LoopPercent(fc, total) == [num |-> LoopBase * total + fc * LoopSpan, den |-> total]

AtMost(p, n) == IF p.den > 0 THEN p.num <= n * p.den ELSE p.num >= n * p.den

AtLeast(p, n) == IF p.den > 0 THEN p.num >= n * p.den ELSE p.num <= n * p.den

RatLeq(p, q) ==
    IF p.den * q.den > 0 THEN p.num * q.den <= q.num * p.den
    ELSE p.num * q.den >= q.num * p.den

\* progress_callback(percent, message, stage), when a callback was passed.
Report(c, log, pct, stage) ==
    IF progress_callback[c] THEN Append(log, [percent |-> pct, stage |-> stage])
    ELSE log

--------------------------------------------------------------------------
(* The per-frame work, frame by frame *)

left_eye(f) == [source |-> f, direction |-> 1]

right_eye(f) == [source |-> f, direction |-> -1]

\* np.hstack([left_eye, right_eye])
vr_frame(f) == [left |-> left_eye(f), right |-> right_eye(f)]

--------------------------------------------------------------------------
(* shift_image, for one pixel.  disparity = depth / 255 * 15 and            *)
(* x_shifted = x + disparity * direction * 0.3 = x + depth*15*direction*3   *)
(* / (255*10); coordinates are kept multiplied by Scale = 255 * 10, so that *)
(* they are integers.                                                       *)

Scale == DepthMax * ShiftDen

Clip(v, lo, hi) == IF v < lo THEN lo ELSE IF v > hi THEN hi ELSE v

\* depth_norm * max_disparity, in units of 1/DepthMax pixel
disparity(depth) == depth * max_disparity

\* x_coords + disparity * direction * 0.3, in units of 1/Scale pixel
x_shifted(x, depth, direction) == x * Scale + disparity(depth) * direction * ShiftNum

ShiftUnclipped(x, width, depth, direction) == x_shifted(x, depth, direction)

\* np.clip(x_shifted, 0, width - 1): the column cv2.remap samples
shift_image(x, width, depth, direction) ==
    Clip(x_shifted(x, depth, direction), 0, (width - 1) * Scale)

NoCoords == [set |-> FALSE, left |-> 0, right |-> 0]

IdlePixel == [x |-> 0, width |-> 1, depth |-> 0]

\* create_stereo_pair: both eye views of the pixel.
CreateStereoPair ==
    /\ ~coords.set
    /\ coords' = [set |-> TRUE,
                  left |-> shift_image(pixel.x, pixel.width, pixel.depth, 1),
                  right |-> shift_image(pixel.x, pixel.width, pixel.depth, -1)]
    /\ UNCHANGED <<callVars, pixel>>

--------------------------------------------------------------------------
(* convert_to_vr180 *)

Upd(f, c, v) == [f EXCEPT ![c] = v]

\* original_clip.audio is not None
HasAudioTrackInverted(c) == ~input[c].hasAudio

HasAudioTrack(c) == input[c].hasAudio

\* os.rename(src, dst)
Rename(fs, src, dst) == [fs EXCEPT ![dst] = fs[src], ![src] = NoFile]

\* if os.path.exists(p): os.remove(p)
RemoveIfExists(fs, p) == [fs EXCEPT ![p] = NoFile]

\* An exception leaves the try body for the except block.
Raise(c, e) ==
    /\ error' = Upd(error, c, e)
    /\ pc' = Upd(pc, c, "except")

\* output_dir = tempfile.mkdtemp(): a directory that did not exist.
Mkdtemp(c) ==
    /\ pc[c] = "mkdtemp"
    /\ \E d \in TmpDirs \ dirs :
          /\ output_dir' = Upd(output_dir, c, d)
          /\ dirs' = dirs \cup {d}
          /\ touched' = Upd(touched, c, touched[c] \cup {DirPath(d)})
    /\ pc' = Upd(pc, c, "report_load")
    /\ UNCHANGED <<input, progress_callback, files, cap, out, total_frames,
                   frame_count, read_called, written, progress, original_clip,
                   processed_clip, error, result, pixel, coords>>

\* progress_callback(10, "Loading video...", 0)
ReportLoad(c) ==
    /\ pc[c] = "report_load"
    /\ progress' = Upd(progress, c, Report(c, progress[c], Fixed(PctLoad), 0))
    /\ pc' = Upd(pc, c, "open_input")
    /\ UNCHANGED <<input, progress_callback, output_dir, dirs, files, cap, out,
                   total_frames, frame_count, read_called, written,
                   original_clip, processed_clip, error, result, touched,
                   pixel, coords>>

\* cap = cv2.VideoCapture(input_path) and the four cap.get(...).  A file that
\* cannot be opened raises nothing: the capture is not opened, and every
\* property reads 0.
OpenInput(c) ==
    /\ pc[c] = "open_input"
    /\ cap' = Upd(cap, c, "open")
    /\ total_frames' = Upd(total_frames, c, input[c].reported)
    /\ pc' = Upd(pc, c, "create_writer")
    /\ UNCHANGED <<input, progress_callback, output_dir, dirs, files, out,
                   frame_count, read_called, written, progress, original_clip,
                   processed_clip, error, result, touched, pixel, coords>>

\* cv2.VideoCapture or a conversion of what cap.get returned raises.
LoadFails(c) ==
    /\ pc[c] = "open_input"
    /\ Raise(c, "load")
    /\ UNCHANGED <<input, progress_callback, output_dir, dirs, files, cap, out,
                   total_frames, frame_count, read_called, written, progress,
                   original_clip, processed_clip, result, touched, pixel, coords>>

\* out = cv2.VideoWriter(temp_video_path, fourcc, fps, (vr_width, vr_height));
\* frame_count = 0.  With fps 0 and size (0, 0) the writer does not open and
\* creates no file.
CreateWriter(c) ==
    /\ pc[c] = "create_writer"
    /\ out' = Upd(out, c, "open")
    /\ frame_count' = Upd(frame_count, c, 0)
    /\ IF input[c].valid
       THEN /\ files' = [files EXCEPT ![temp_video_path(c)] =
                            VideoFile(<<>>, "none", "mp4v", TRUE)]
            /\ touched' = Upd(touched, c, touched[c] \cup {temp_video_path(c)})
       ELSE UNCHANGED <<files, touched>>
    /\ pc' = Upd(pc, c, "read")
    /\ UNCHANGED <<input, progress_callback, output_dir, dirs, cap,
                   total_frames, read_called, written, progress, original_clip,
                   processed_clip, error, result, pixel, coords>>

\* One iteration of "while True": cap.read(); break when there is no frame;
\* the two progress reports on every 30th frame; depth, stereo pair, hstack,
\* out.write; frame_count += 1.
ReadFrame(c) ==
    /\ pc[c] = "read"
    /\ read_called' = Upd(read_called, c, TRUE)
    /\ IF frame_count[c] >= input[c].nFrames
       THEN /\ pc' = Upd(pc, c, "release")
            /\ UNCHANGED <<files, frame_count, written, progress, error>>
       ELSE IF /\ progress_callback[c]
               /\ frame_count[c] % ProgressEvery = 0
               /\ total_frames[c] = 0
       THEN \* frame_count / total_frames: ZeroDivisionError
            /\ Raise(c, "zero_division")
            /\ UNCHANGED <<files, frame_count, written, progress>>
       ELSE LET f == vr_frame(Frame(c, frame_count[c] + 1))
                pct == LoopPercent(frame_count[c], total_frames[c])
                tv == temp_video_path(c)
            IN  /\ progress' = Upd(progress, c,
                      IF frame_count[c] % ProgressEvery = 0
                      THEN Report(c, Report(c, progress[c], pct, 1), pct, 2)
                      ELSE progress[c])
                /\ written' = Upd(written, c, Append(written[c], f))
                /\ files' = [files EXCEPT ![tv].frames = Append(@, f)]
                /\ frame_count' = Upd(frame_count, c, frame_count[c] + 1)
                /\ UNCHANGED <<pc, error>>
    /\ UNCHANGED <<input, progress_callback, output_dir, dirs, cap, out,
                   total_frames, original_clip, processed_clip, result,
                   touched, pixel, coords>>

\* A frame was read and its processing or out.write raises.
FrameFails(c) ==
    /\ pc[c] = "read"
    /\ frame_count[c] < input[c].nFrames
    /\ read_called' = Upd(read_called, c, TRUE)
    /\ Raise(c, "frame")
    /\ UNCHANGED <<input, progress_callback, output_dir, dirs, files, cap, out,
                   total_frames, frame_count, written, progress, original_clip,
                   processed_clip, result, touched, pixel, coords>>

\* cap.release(); out.release()
Release(c) ==
    /\ pc[c] = "release"
    /\ cap' = Upd(cap, c, "released")
    /\ out' = Upd(out, c, "released")
    /\ pc' = Upd(pc, c, "report_audio")
    /\ UNCHANGED <<input, progress_callback, output_dir, dirs, files,
                   total_frames, frame_count, read_called, written, progress,
                   original_clip, processed_clip, error, result, touched,
                   pixel, coords>>

\* progress_callback(95, "Adding audio...", 3)
ReportAudio(c) ==
    /\ pc[c] = "report_audio"
    /\ progress' = Upd(progress, c, Report(c, progress[c], Fixed(PctAudio), 3))
    /\ pc' = Upd(pc, c, "open_original")
    /\ UNCHANGED <<input, progress_callback, output_dir, dirs, files, cap, out,
                   total_frames, frame_count, read_called, written,
                   original_clip, processed_clip, error, result, touched,
                   pixel, coords>>

\* original_clip = VideoFileClip(input_path): raises when the file is no video.
OpenOriginalClip(c) ==
    /\ pc[c] = "open_original"
    /\ IF input[c].valid
       THEN /\ original_clip' = Upd(original_clip, c, "open")
            /\ pc' = Upd(pc, c, "open_processed")
            /\ UNCHANGED error
       ELSE /\ Raise(c, "bad_input")
            /\ UNCHANGED original_clip
    /\ UNCHANGED <<input, progress_callback, output_dir, dirs, files, cap, out,
                   total_frames, frame_count, read_called, written, progress,
                   processed_clip, result, touched, pixel, coords>>

\* processed_clip = VideoFileClip(temp_video_path), then the test of
\* original_clip.audio.
OpenProcessedClip(c) ==
    /\ pc[c] = "open_processed"
    /\ IF exists(temp_video_path(c)) /\ files[temp_video_path(c)].frames # <<>>
       THEN /\ processed_clip' = Upd(processed_clip, c, "open")
            /\ pc' = Upd(pc, c, IF HasAudioTrack(c) THEN "write_audio" ELSE "rename")
            /\ UNCHANGED error
       ELSE /\ Raise(c, "bad_temp")
            /\ UNCHANGED processed_clip
    /\ UNCHANGED <<input, progress_callback, output_dir, dirs, files, cap, out,
                   total_frames, frame_count, read_called, written, progress,
                   original_clip, result, touched, pixel, coords>>

\* final_clip.write_videofile, first step: the audio of the original is
\* written to temp_audiofile.
WriteTempAudio(c) ==
    /\ pc[c] = "write_audio"
    /\ files' = [files EXCEPT ![temp_audiofile] =
                    VideoFile(<<>>, IF input[c].hasAudio THEN c ELSE "none", "aac", TRUE)]
    /\ touched' = Upd(touched, c, touched[c] \cup {temp_audiofile})
    /\ pc' = Upd(pc, c, "encode")
    /\ UNCHANGED <<input, progress_callback, output_dir, dirs, cap, out,
                   total_frames, frame_count, read_called, written, progress,
                   original_clip, processed_clip, error, result, pixel, coords>>

\* final_clip.write_videofile, second step: the frames of the processed clip
\* are encoded with libx264 and muxed with the file temp_audiofile names into
\* output_path.  It raises when that file is not there.
EncodeFinal(c) ==
    /\ pc[c] = "encode"
    /\ IF exists(temp_audiofile)
       THEN /\ files' = [files EXCEPT ![output_path(c)] =
                            VideoFile(files[temp_video_path(c)].frames,
                                      files[temp_audiofile].audio, "libx264", TRUE)]
            /\ touched' = Upd(touched, c, touched[c] \cup {output_path(c)})
            /\ pc' = Upd(pc, c, "remove_audio")
            /\ UNCHANGED error
       ELSE /\ Raise(c, "encode")
            /\ UNCHANGED <<files, touched>>
    /\ UNCHANGED <<input, progress_callback, output_dir, dirs, cap, out,
                   total_frames, frame_count, read_called, written, progress,
                   original_clip, processed_clip, result, pixel, coords>>

\* The encoder fails (no libx264 or aac, disk full, ...), before or after it
\* began to write output_path.
EncodeFails(c) ==
    /\ pc[c] = "encode"
    /\ \E began \in BOOLEAN :
          IF began
          THEN /\ files' = [files EXCEPT ![output_path(c)] =
                               VideoFile(<<>>, "none", "libx264", FALSE)]
               /\ touched' = Upd(touched, c, touched[c] \cup {output_path(c)})
          ELSE UNCHANGED <<files, touched>>
    /\ Raise(c, "encode")
    /\ UNCHANGED <<input, progress_callback, output_dir, dirs, cap, out,
                   total_frames, frame_count, read_called, written, progress,
                   original_clip, processed_clip, result, pixel, coords>>

\* final_clip.write_videofile, last step (remove_temp=True), and
\* final_clip.close().
RemoveTempAudio(c) ==
    /\ pc[c] = "remove_audio"
    /\ files' = RemoveIfExists(files, temp_audiofile)
    /\ touched' = Upd(touched, c, touched[c] \cup {temp_audiofile})
    /\ pc' = Upd(pc, c, "cleanup")
    /\ UNCHANGED <<input, progress_callback, output_dir, dirs, cap, out,
                   total_frames, frame_count, read_called, written, progress,
                   original_clip, processed_clip, error, result, pixel, coords>>

\* os.rename(temp_video_path, output_path)
RenameTemp(c) ==
    /\ pc[c] = "rename"
    /\ files' = Rename(files, temp_video_path(c), output_path(c))
    /\ touched' = Upd(touched, c,
                      touched[c] \cup {temp_video_path(c), output_path(c)})
    /\ pc' = Upd(pc, c, "cleanup")
    /\ UNCHANGED <<input, progress_callback, output_dir, dirs, cap, out,
                   total_frames, frame_count, read_called, written, progress,
                   original_clip, processed_clip, error, result, pixel, coords>>

\* original_clip.close(); processed_clip.close(); remove temp_video_path when
\* it exists.
Cleanup(c) ==
    /\ pc[c] = "cleanup"
    /\ original_clip' = Upd(original_clip, c, "closed")
    /\ processed_clip' = Upd(processed_clip, c, "closed")
    /\ files' = RemoveIfExists(files, temp_video_path(c))
    /\ touched' = Upd(touched, c, touched[c] \cup {temp_video_path(c)})
    /\ pc' = Upd(pc, c, "report_done")
    /\ UNCHANGED <<input, progress_callback, output_dir, dirs, cap, out,
                   total_frames, frame_count, read_called, written, progress,
                   error, result, pixel, coords>>

\* progress_callback(100, "Conversion complete!", 4); return output_path
ReportDone(c) ==
    /\ pc[c] = "report_done"
    /\ progress' = Upd(progress, c, Report(c, progress[c], Fixed(PctDone), 4))
    /\ result' = Upd(result, c, output_path(c))
    /\ pc' = Upd(pc, c, "done")
    /\ UNCHANGED <<input, progress_callback, output_dir, dirs, files, cap, out,
                   total_frames, frame_count, read_called, written,
                   original_clip, processed_clip, error, touched, pixel, coords>>

\* except Exception: remove temp_video_path when it exists; raise.
Except(c) ==
    /\ pc[c] = "except"
    /\ files' = RemoveIfExists(files, temp_video_path(c))
    /\ touched' = Upd(touched, c,
                      IF exists(temp_video_path(c))
                      THEN touched[c] \cup {temp_video_path(c)} ELSE touched[c])
    /\ pc' = Upd(pc, c, "raised")
    /\ UNCHANGED <<input, progress_callback, output_dir, dirs, cap, out,
                   total_frames, frame_count, read_called, written, progress,
                   original_clip, processed_clip, error, result, pixel, coords>>

--------------------------------------------------------------------------
(* Specifications *)

Idle(f) == [c \in Calls |-> f]

InitCallState ==
    /\ output_dir = Idle(NoDir)
    /\ dirs = {}
    /\ files = [p \in AllPaths |-> NoFile]
    /\ cap = Idle("none")
    /\ out = Idle("none")
    /\ total_frames = Idle(0)
    /\ frame_count = Idle(0)
    /\ read_called = Idle(FALSE)
    /\ written = Idle(<<>>)
    /\ progress = Idle(<<>>)
    /\ original_clip = Idle("none")
    /\ processed_clip = Idle("none")
    /\ error = Idle("none")
    /\ result = Idle(NoPath)
    /\ touched = Idle({})

\* One call, on any input, with or without a callback.
Init ==
    /\ \E i \in ValidInputs(MaxFrames) \cup {InvalidInput} :
          input = [c \in Calls |-> IF c = "call_a" THEN i ELSE InvalidInput]
    /\ \E cb \in BOOLEAN :
          progress_callback = [c \in Calls |-> IF c = "call_a" THEN cb ELSE FALSE]
    /\ pc = [c \in Calls |-> IF c = "call_a" THEN "mkdtemp" ELSE "idle"]
    /\ InitCallState
    /\ pixel = IdlePixel
    /\ coords = NoCoords

Next ==
    \/ \E c \in Calls : Mkdtemp(c)
    \/ \E c \in Calls : ReportLoad(c)
    \/ \E c \in Calls : OpenInput(c)
    \/ \E c \in Calls : LoadFails(c)
    \/ \E c \in Calls : CreateWriter(c)
    \/ \E c \in Calls : ReadFrame(c)
    \/ \E c \in Calls : FrameFails(c)
    \/ \E c \in Calls : Release(c)
    \/ \E c \in Calls : ReportAudio(c)
    \/ \E c \in Calls : OpenOriginalClip(c)
    \/ \E c \in Calls : OpenProcessedClip(c)
    \/ \E c \in Calls : WriteTempAudio(c)
    \/ \E c \in Calls : EncodeFinal(c)
    \/ \E c \in Calls : EncodeFails(c)
    \/ \E c \in Calls : RemoveTempAudio(c)
    \/ \E c \in Calls : RenameTemp(c)
    \/ \E c \in Calls : Cleanup(c)
    \/ \E c \in Calls : ReportDone(c)
    \/ \E c \in Calls : Except(c)

Spec == Init /\ [][Next]_vars

\* Two calls of one process, each on its own valid input whose frame count is
\* reported exactly.
InitConc ==
    /\ input \in [Calls -> {i \in ValidInputs(MaxFramesConc) : i.reported = i.nFrames}]
    /\ progress_callback = Idle(TRUE)
    /\ pc = Idle("mkdtemp")
    /\ InitCallState
    /\ pixel = IdlePixel
    /\ coords = NoCoords

SpecConc == InitConc /\ [][Next]_vars

\* One pixel of any frame of width up to MaxWidth, with any depth value.
InitStereo ==
    /\ input = Idle(InvalidInput)
    /\ progress_callback = Idle(FALSE)
    /\ pc = Idle("idle")
    /\ InitCallState
    /\ \E w \in 1..MaxWidth : \E x \in 0..(w - 1) : \E d \in 0..DepthMax :
          pixel = [x |-> x, width |-> w, depth |-> d]
    /\ coords = NoCoords

NextStereo == CreateStereoPair

SpecStereo == InitStereo /\ [][NextStereo]_vars

--------------------------------------------------------------------------
(* Properties *)

Started(c) == pc[c] # "idle"

Returned(c) == pc[c] = "done"

Raised(c) == pc[c] = "raised"

Abs(n) == IF n < 0 THEN -n ELSE n

\* What the output stream holds when every frame of the input was written
\* once, in the order read.
AllFramesInOrder(c) == [k \in 1..input[c].nFrames |-> vr_frame(Frame(c, k))]

Reported(c, stage) == \E i \in DOMAIN progress[c] : progress[c][i].stage = stage

\* C1: for an input of N readable frames the call hands exactly N stereo
\* frames to the writer, the k-th made from the k-th frame read.  Runs that an
\* exception of the libraries ends at Load or in the loop are left out.
C1_EveryFrameWrittenOnceInOrder ==
    \A c \in Calls :
        ((Returned(c) \/ Raised(c)) /\ error[c] \notin {"load", "frame"})
            => written[c] = AllFramesInOrder(c)

\* C2: when the call has ended, by return or by raise, neither the capture
\* nor the writer is still open.
C2_HandlesReleasedOnEveryExit ==
    \A c \in Calls :
        (Returned(c) \/ Raised(c)) => (cap[c] # "open" /\ out[c] # "open")

\* C3: a failure of the audio mux / re-encode step does not make the call
\* raise: the call returns the path of the video-only file, which exists.
C3_AudioFailureReturnsVideoOnly ==
    \A c \in Calls :
        (error[c] = "encode" /\ (Returned(c) \/ Raised(c)))
            => /\ Returned(c)
               /\ result[c] = temp_video_path(c)
               /\ exists(temp_video_path(c))

\* C4: when the call has raised, the temporary video file, the final output
\* file and the output directory of the call are gone.
C4_NoArtifactsAfterRaise ==
    \A c \in Calls :
        Raised(c)
            => /\ ~exists(temp_video_path(c))
               /\ ~exists(output_path(c))
               /\ output_dir[c] \notin dirs

\* C5: on an input that cannot be opened the call fails at Load: no writer is
\* created, no frame is read, and no checkpoint after the load is reported.
C5_InvalidInputFailsAtLoad ==
    \A c \in Calls :
        (Started(c) /\ ~input[c].valid)
            => /\ out[c] = "none"
               /\ ~read_called[c]
               /\ \A i \in DOMAIN progress[c] : progress[c][i].stage = 0

\* C6: every progress call passes a percent in [0,100] and a stage in 0..4,
\* and every percent of the frame loop (stages 1 and 2) is in [20,80].
C6_ProgressValuesInRange ==
    \A c \in Calls : \A i \in DOMAIN progress[c] :
        LET p == progress[c][i]
        IN  /\ AtLeast(p.percent, 0) /\ AtMost(p.percent, 100)
            /\ p.stage \in 0..4
            /\ p.stage \in {1, 2} => (AtLeast(p.percent, 20) /\ AtMost(p.percent, 80))

\* What call c returns when it runs alone.
ResultAlone(c) ==
    IF input[c].hasAudio
    THEN VideoFile(AllFramesInOrder(c), c, "libx264", TRUE)
    ELSE VideoFile(AllFramesInOrder(c), "none", "mp4v", TRUE)

\* C7: two concurrent calls touch disjoint sets of paths, and each returns
\* the file it returns when it runs alone.
C7_ConcurrentCallsIndependent ==
    /\ \A c, d \in Calls : c # d => touched[c] \cap touched[d] = {}
    /\ \A c \in Calls : Returned(c) => files[result[c]] = ResultAlone(c)

\* C8: in both eye views the sampling offset is at most 4.5 pixels, before and
\* after the clip, and the sampling coordinate lies in [0, width - 1].
C8_ShiftBounded ==
    coords.set =>
        \A e \in {[at |-> coords.left, dir |-> 1], [at |-> coords.right, dir |-> -1]} :
            /\ 2 * Abs(e.at - pixel.x * Scale) <= 9 * Scale
            /\ 2 * Abs(x_shifted(pixel.x, pixel.depth, e.dir) - pixel.x * Scale) <= 9 * Scale
            /\ 0 <= e.at
            /\ e.at <= (pixel.width - 1) * Scale

\* The largest depth: the left view is sampled 4.5 pixels to the right, and
\* the right view is clamped at column 0.
C8_Witness ==
    /\ coords.set
    /\ pixel.depth = DepthMax
    /\ pixel.x > 0
    /\ 2 * (coords.left - pixel.x * Scale) = 9 * Scale
    /\ coords.right = 0

\* C9: on a readable input without audio, once the frame loop has ended
\* nothing fails; the video-only file is moved to output_path as the writer
\* left it, nothing is encoded, and on return the returned path exists and
\* temp_video_path does not.
C9_NoAudioMovesVideoOnly ==
    \A c \in Calls :
        (input[c].valid /\ ~input[c].hasAudio)
            => /\ error[c] \in {"none", "load", "frame", "zero_division"}
               /\ temp_audiofile \notin touched[c]
               /\ pc[c] \in {"cleanup", "report_done", "done"}
                     => /\ files[output_path(c)] = VideoFile(written[c], "none", "mp4v", TRUE)
                        /\ written[c] = AllFramesInOrder(c)
                        /\ ~exists(temp_video_path(c))
               /\ Returned(c)
                     => /\ result[c] = output_path(c)
                        /\ exists(result[c])
                        /\ ~exists(temp_video_path(c))

\* A call on an input of several frames and no audio has returned.
C9_Witness ==
    \E c \in Calls :
        /\ Returned(c)
        /\ input[c].valid
        /\ ~input[c].hasAudio
        /\ Len(written[c]) >= 2
        /\ exists(result[c])

\* The phase of the contract a stage number belongs to: load, frame loop
\* (stages 1 and 2 alternate within it), audio, done.
Phase(stage) == IF stage = 2 THEN 1 ELSE stage

\* C10: 10 is reported only once the input is opened and its metadata read;
\* the checkpoints come in the order 10, loop values, 95, 100; the loop values
\* do not decrease; 95 comes after the last frame was written and before the
\* audio step; 100 is the last call, and the call then returns.
C10_CheckpointsInOrder ==
    \A c \in Calls :
        LET log == progress[c]
        IN  /\ Reported(c, 0) => cap[c] # "none"
            /\ \A i, j \in DOMAIN log :
                  i < j => /\ Phase(log[i].stage) <= Phase(log[j].stage)
                           /\ (log[i].stage \in {1, 2} /\ log[j].stage \in {1, 2})
                                 => RatLeq(log[i].percent, log[j].percent)
            /\ Reported(c, 3)
                  => /\ written[c] = AllFramesInOrder(c)
                     /\ pc[c] \notin {"mkdtemp", "report_load", "open_input",
                                      "create_writer", "read", "release",
                                      "report_audio"}
            /\ Reported(c, 4)
                  => /\ log[Len(log)].stage = 4
                     /\ Returned(c)
                     /\ result[c] = output_path(c)

====
